---- MODULE Spec2Model ----
(***************************************************************************)
(* Retrieval-and-routing engine of the demo_indabax RAG practical:         *)
(* keyword tool router (rag.py), vector store similarity / MMR search      *)
(* (vector_store.py).                                                      *)
(*                                                                         *)
(* Text is a sequence of one-character strings.  Real numbers are exact    *)
(* rationals <<numerator, denominator>> with a positive denominator.       *)
(***************************************************************************)
EXTENDS Integers, Sequences, FiniteSets, TLC

VARIABLES
    question,   \* the question text typed so far (input of the next call)
    tool,       \* value returned by the last _route_to_tool call, or "none"
    store,      \* rows of the documents table, in storage (insertion) order
    nextId,     \* number of ids handed out so far (gen_random_uuid is fresh)
    result,     \* arguments and outcome of the last call, until the caller takes it
    config,     \* optional components the RAGSystem was constructed with
    conversation, \* Conversation Store: the message list of each conversation
    inflight,   \* position of each concurrently running query
    early_stopping \* the EarlyStopping object of a training loop, if one is built

vars == <<question, tool, store, nextId, result, config, conversation, inflight,
         early_stopping>>

-----------------------------------------------------------------------------
(* Bounds of the model *)

MaxFragments == 3   \* fragments typed into one question
MaxIds == 5         \* row ids handed out
MaxRows == 3        \* rows in the documents table
MaxK == 3           \* largest k and fetch_k passed to a search
MaxQueryK == 2      \* largest k passed to a query
MaxDocs == 3        \* most candidates handed to the reranker
MaxHistory == 4     \* messages added to a conversation read by get_history
MaxLog == 4         \* a concurrent query starts on a conversation of fewer messages
MaxCalls == 5       \* calls of one EarlyStopping object
MaxPatience == 2    \* largest patience of an EarlyStopping object
MaxMessages == 2    \* a query is put to a conversation of fewer messages

-----------------------------------------------------------------------------
(* Text helpers: str.lower and the substring test `kw in text` *)

UpperLetters ==
    << "A","B","C","D","E","F","G","H","I","J","K","L","M",
       "N","O","P","Q","R","S","T","U","V","W","X","Y","Z" >>

LowerLetters ==
    << "a","b","c","d","e","f","g","h","i","j","k","l","m",
       "n","o","p","q","r","s","t","u","v","w","x","y","z" >>

LowerChar(c) ==
    IF \E i \in 1..Len(UpperLetters) : UpperLetters[i] = c
    THEN LowerLetters[CHOOSE i \in 1..Len(UpperLetters) : UpperLetters[i] = c]
    ELSE c

lower(text) == [i \in 1..Len(text) |-> LowerChar(text[i])]

\* Python `kw in text` for strings: kw occurs as a contiguous run of text.
Contains(text, kw) ==
    \E i \in 1..(Len(text) - Len(kw) + 1) : SubSeq(text, i, i + Len(kw) - 1) = kw

\* Python any(kw in text for kw in keywords)
AnyKeyword(text, keywords) ==
    \E j \in 1..Len(keywords) : Contains(text, keywords[j])

-----------------------------------------------------------------------------
(* Tool router *)

greeting_keywords ==
    << <<"h","e","l","l","o">>,
       <<"h","i">>,
       <<"h","e","y">>,
       <<"t","h","a","n","k">>,
       <<"t","h","a","n","k","s">>,
       <<"g","o","o","d"," ","m","o","r","n","i","n","g">>,
       <<"g","o","o","d"," ","e","v","e","n","i","n","g">> >>

web_search_keywords ==
    << <<"w","e","a","t","h","e","r">>,
       <<"t","e","m","p","e","r","a","t","u","r","e">>,
       <<"f","o","r","e","c","a","s","t">>,
       <<"n","e","w","s">>,
       <<"t","o","d","a","y">>,
       <<"c","u","r","r","e","n","t">>,
       <<"l","a","t","e","s","t">>,
       <<"r","e","c","e","n","t">>,
       <<"p","r","i","c","e">>,
       <<"s","t","o","c","k">>,
       <<"m","a","r","k","e","t">>,
       <<"w","h","o"," ","i","s"," ","t","h","e"," ","c","u","r","r","e","n","t">>,
       <<"w","h","o"," ","w","o","n">>,
       <<"w","h","e","n"," ","d","i","d">>,
       <<"w","h","a","t"," ","h","a","p","p","e","n","e","d">> >>

rag_keywords ==
    << <<"d","o","c","u","m","e","n","t">>,
       <<"p","d","f">>,
       <<"a","c","c","o","r","d","i","n","g"," ","t","o">>,
       <<"i","n"," ","t","h","e">>,
       <<"f","r","o","m"," ","t","h","e">>,
       <<"d","o","c","l","i","n","g">>,
       <<"p","a","p","e","r">> >>

\* Mutant of _route_to_tool: the web-search test runs before the greeting test.
RouteWebFirst(q) ==
    LET question_lower == lower(q) IN
    IF AnyKeyword(question_lower, web_search_keywords) THEN "web_search"
    ELSE IF AnyKeyword(question_lower, greeting_keywords) THEN "direct_llm"
    ELSE "rag"

\* Mutant of _route_to_tool: an unmatched question falls back to direct_llm.
RouteDefaultDirect(q) ==
    LET question_lower == lower(q) IN
    IF AnyKeyword(question_lower, greeting_keywords) THEN "direct_llm"
    ELSE IF AnyKeyword(question_lower, web_search_keywords) THEN "web_search"
    ELSE IF AnyKeyword(question_lower, rag_keywords) THEN "rag"
    ELSE "direct_llm"

_route_to_tool(q) ==
    LET question_lower == lower(q) IN
    IF AnyKeyword(question_lower, greeting_keywords) THEN "direct_llm"
    ELSE IF AnyKeyword(question_lower, web_search_keywords) THEN "web_search"
    ELSE IF AnyKeyword(question_lower, rag_keywords) THEN "rag"
    ELSE "rag"

\* Pieces of text a user types; mixed case, keywords of every category,
\* single letters that build or break a keyword across a boundary.
Fragments ==
    { <<"h">>, <<"I">>, <<"s">>, <<" ">>, <<"x">>,
      <<"H","E","L","L","O">>,
      <<"n","e","w","s">>,
      <<"T","o","d","a","y">>,
      <<"P","D","F">>,
      <<"i","n"," ","t","h","e">> }

RECURSIVE CountFragments(_)
\* Least number of fragments that spell the text (MaxFragments + 1 if none).
CountFragments(text) ==
    IF text = <<>> THEN 0
    ELSE LET fits == {f \in Fragments :
                        Len(f) <= Len(text) /\ SubSeq(text, 1, Len(f)) = f}
             rest(f) == SubSeq(text, Len(f) + 1, Len(text))
         IN IF fits = {} THEN MaxFragments + 1
            ELSE LET counts == {1 + CountFragments(rest(f)) : f \in fits}
                 IN CHOOSE c \in counts : \A d \in counts : c <= d

TypeFragment(f) ==
    /\ CountFragments(question \o f) <= MaxFragments
    /\ question' = question \o f
    /\ tool' = "none"
    /\ UNCHANGED <<early_stopping, inflight, store, nextId, result, config, conversation>>

RouteToTool ==
    /\ tool' = _route_to_tool(question)
    /\ UNCHANGED <<early_stopping, inflight, question, store, nextId, result, config, conversation>>

-----------------------------------------------------------------------------
(* Router claims *)

\* kw occurs in the lowercased text: after some prefix, the next characters
\* of the text are, lowercased, those of kw.
Occurs(kw, text) ==
    \E i \in 0..(Len(text) - Len(kw)) :
        \A n \in 1..Len(kw) : LowerChar(text[i + n]) = kw[n]

Range(s) == {s[i] : i \in DOMAIN s}

HasGreeting(text) == \E kw \in Range(greeting_keywords) : Occurs(kw, text)
HasWebSearch(text) == \E kw \in Range(web_search_keywords) : Occurs(kw, text)
HasDocument(text) == \E kw \in Range(rag_keywords) : Occurs(kw, text)

\* C1: the router returns the first matching category in the order greeting,
\* web-search, document: a greeting keyword anywhere in the lowercased
\* question gives direct_llm whatever else occurs; otherwise a web-search
\* keyword gives web_search even when document keywords occur.
C1_RouterPrecedence ==
    tool # "none" =>
        /\ HasGreeting(question) => tool = "direct_llm"
        /\ (~HasGreeting(question) /\ HasWebSearch(question)) => tool = "web_search"

\* A routed question holding a greeting after a web-search and a document
\* keyword.
C1_Witness ==
    /\ tool = "direct_llm"
    /\ HasWebSearch(question)
    /\ HasDocument(question)
    /\ ~HasGreeting(SubSeq(question, 1, 2))

\* C2: a question with no greeting and no web-search keyword is routed to
\* rag, with or without a document keyword, and every routing result is one
\* of direct_llm, web_search, rag.
C2_DefaultRag ==
    tool # "none" =>
        /\ tool \in {"direct_llm", "web_search", "rag"}
        /\ (~HasGreeting(question) /\ ~HasWebSearch(question)) => tool = "rag"

\* A routed non-empty question that matches no keyword of any category.
C2_Witness ==
    /\ tool = "rag"
    /\ question # <<>>
    /\ ~HasGreeting(question)
    /\ ~HasWebSearch(question)
    /\ ~HasDocument(question)

-----------------------------------------------------------------------------
(* Exact rational arithmetic for scores *)

Rat(n, d) == <<n, d>>
RLess(a, b) == a[1] * b[2] < b[1] * a[2]
REq(a, b) == a[1] * b[2] = b[1] * a[2]
RMul(a, b) == <<a[1] * b[1], a[2] * b[2]>>
RSub(a, b) == <<a[1] * b[2] - b[1] * a[2], a[2] * b[2]>>
\* Python max(a, b): b only when it is strictly larger
RMax(a, b) == IF RLess(a, b) THEN b ELSE a
Abs(n) == IF n < 0 THEN -n ELSE n
Min(a, b) == IF a <= b THEN a ELSE b

-----------------------------------------------------------------------------
(* Vector store: the documents table *)

\* Chunk texts with their Python len(): the second and third test chunk.
Contents == {"DL", "NLP"}
len(content) == CASE content = "DL" -> 92 [] content = "NLP" -> 83

SectionOf(content) == CASE content = "DL" -> "deep" [] content = "NLP" -> "language"

\* Embeddings all have the same Euclidean norm, so cosine reduces to the dot
\* product over the squared norm; cosine does not depend on the norms.
Embeddings == {<<4, 3>>, <<3, 4>>}
query_embedding == <<4, 3>>

RECURSIVE Dot(_, _)
Dot(a, b) == IF a = <<>> \/ b = <<>> THEN 0 ELSE a[1] * b[1] + Dot(Tail(a), Tail(b))

\* pgvector `embedding <=> q`: the cosine distance 1 - cos(embedding, q)
CosineDistance(embedding, q) == RSub(Rat(1, 1), Rat(Dot(embedding, q), Dot(q, q)))

\* SQL `1 - (embedding <=> %s::vector) as similarity`
Similarity(embedding, q) == RSub(Rat(1, 1), CosineDistance(embedding, q))

Chunk(c, f, e) ==
    [content |-> c,
     metadata |-> [filename |-> f, section |-> SectionOf(c)],
     embedding |-> e]

\* Chunks handed to insert_chunks: every text with every embedding in a.pdf,
\* and in b.pdf a copy of the a.pdf chunk nearest to the query.
Chunks ==
    {Chunk(c, "a.pdf", e) : c \in Contents, e \in Embeddings}
        \cup {Chunk("DL", "b.pdf", query_embedding)}

\* An optional value: None is the empty tuple, a present value d is <<d>>.
None == <<>>
Some(d) == <<d>>

\* Metadata filters passed by callers; None is "no filter".
Filters ==
    { None,
      Some([filename |-> "a.pdf"]),
      Some([filename |-> "a.pdf", section |-> "deep"]) }

\* Python truthiness of filter_metadata: None and {} are false
Truthy(filter_metadata) ==
    filter_metadata # None /\ DOMAIN filter_metadata[1] # {}

\* Mutant of MatchesFilter: any one matching key is enough.
MatchesAnyKey(metadata, filter_metadata) ==
    \/ ~Truthy(filter_metadata)
    \/ \E key \in DOMAIN filter_metadata[1] :
           key \in DOMAIN metadata /\ metadata[key] = filter_metadata[1][key]

\* WHERE metadata @> filter (JSONB containment), or no WHERE clause at all
MatchesFilter(metadata, filter_metadata) ==
    \/ ~Truthy(filter_metadata)
    \/ \A key \in DOMAIN filter_metadata[1] :
           key \in DOMAIN metadata /\ metadata[key] = filter_metadata[1][key]

RECURSIVE OrderByLimitFarthest(_, _, _)
\* Mutant of OrderByLimit: the sort runs from the farthest row to the nearest.
OrderByLimitFarthest(rows, q, limit) ==
    IF rows = {} \/ limit = 0 THEN {<<>>}
    ELSE LET farthest == {r \in rows : \A t \in rows :
                             ~RLess(CosineDistance(r.embedding, q),
                                    CosineDistance(t.embedding, q))}
         IN UNION {{<<r>> \o rest : rest \in OrderByLimitFarthest(rows \ {r}, q, limit - 1)}
                       : r \in farthest}

RECURSIVE OrderByLimit(_, _, _)
\* ORDER BY embedding <=> q LIMIT limit over a set of rows: every sequence of
\* the nearest rows in non-decreasing distance.  SQL leaves the order of rows
\* of equal distance open, so each such order is a possible answer.
OrderByLimit(rows, q, limit) ==
    IF rows = {} \/ limit = 0 THEN {<<>>}
    ELSE LET nearest == {r \in rows : \A t \in rows :
                            ~RLess(CosineDistance(t.embedding, q),
                                   CosineDistance(r.embedding, q))}
         IN UNION {{<<r>> \o rest : rest \in OrderByLimit(rows \ {r}, q, limit - 1)}
                       : r \in nearest}

\* Mutant of SelectRow: the similarity column holds the cosine distance.
SelectRowDistance(r, q) ==
    [id |-> r.id, content |-> r.content, metadata |-> r.metadata,
     similarity |-> CosineDistance(r.embedding, q)]

\* SELECT id, content, metadata, 1 - (embedding <=> q) as similarity
SelectRow(r, q) ==
    [id |-> r.id, content |-> r.content, metadata |-> r.metadata,
     similarity |-> Similarity(r.embedding, q)]

\* Mutant of FetchNearest: the LIMIT is one too large.
FetchNearestOffByOne(q, limit, filter_metadata) ==
    LET rows == {store[i] : i \in DOMAIN store}
        matching == {r \in rows : MatchesFilter(r.metadata, filter_metadata)}
    IN {[i \in DOMAIN s |-> SelectRow(s[i], q)] :
            s \in OrderByLimit(matching, q, limit + 1)}

\* Mutant of FetchNearest: the WHERE clause is dropped.
FetchNearestNoWhere(q, limit, filter_metadata) ==
    LET rows == {store[i] : i \in DOMAIN store}
    IN {[i \in DOMAIN s |-> SelectRow(s[i], q)] :
            s \in OrderByLimit(rows, q, limit)}

\* The SELECT ... [WHERE metadata @> filter] ORDER BY ... LIMIT query that
\* similarity_search and mmr_search both run: the possible cur.fetchall().
FetchNearest(q, limit, filter_metadata) ==
    LET rows == {store[i] : i \in DOMAIN store}
        matching == {r \in rows : MatchesFilter(r.metadata, filter_metadata)}
    IN {[i \in DOMAIN s |-> SelectRow(s[i], q)] :
            s \in OrderByLimit(matching, q, limit)}

\* No call is in flight and no return value is pending.
NoResult == [op |-> "none"]

\* The caller takes the value the last call returned.
Return ==
    /\ result # NoResult
    /\ result' = NoResult
    /\ UNCHANGED <<early_stopping, inflight, question, tool, store, nextId, config, conversation>>

\* vector(vector_size), the embedding column's size set by initialize
vector_size == Len(query_embedding)

\* Position of the first chunk the INSERT rejects (an embedding of another
\* size than the column's), 0 when every chunk is accepted
FirstRejected(chunks) ==
    IF \A i \in DOMAIN chunks : Len(chunks[i].embedding) = vector_size THEN 0
    ELSE CHOOSE i \in DOMAIN chunks :
             /\ Len(chunks[i].embedding) # vector_size
             /\ \A j \in 1..(i - 1) : Len(chunks[j].embedding) = vector_size

\* The rows the INSERTs of chunks 1..n add to the table
InsertedRows(chunks, n) ==
    [i \in 1..n |->
        [id |-> nextId + i,
         content |-> chunks[i].content,
         metadata |-> chunks[i].metadata,
         embedding |-> chunks[i].embedding]]

\* Mutant of Transaction: the rows inserted before the failure stay.
TransactionPartial(chunks) ==
    IF FirstRejected(chunks) = 0
    THEN [status |-> "returned", rows |-> store \o InsertedRows(chunks, Len(chunks))]
    ELSE [status |-> "raised",
          rows |-> store \o InsertedRows(chunks, FirstRejected(chunks) - 1)]

\* Mutant of Transaction: chunks whose content is already stored are skipped.
TransactionDedup(chunks) ==
    LET Fresh(r) == \A i \in DOMAIN store : store[i].content # r.content
    IN [status |-> "returned",
        rows |-> store \o SelectSeq(InsertedRows(chunks, Len(chunks)), Fresh)]

\* `with psycopg.connect(...) as conn`: the INSERTs of the loop and the commit
\* when all of them passed; when one raises, the block is left before the
\* commit and the connection rolls the transaction back.
Transaction(chunks) ==
    IF FirstRejected(chunks) = 0
    THEN [status |-> "returned", rows |-> store \o InsertedRows(chunks, Len(chunks))]
    ELSE [status |-> "raised", rows |-> store]

\* VectorStore.insert_chunks; ids are fresh (gen_random_uuid)
insert_chunks(chunks) ==
    /\ result = NoResult
    /\ Len(store) + Len(chunks) <= MaxRows
    /\ nextId + Len(chunks) <= MaxIds
    /\ store' = Transaction(chunks).rows
    /\ nextId' = nextId + (Len(Transaction(chunks).rows) - Len(store))
    /\ result' = IF Transaction(chunks).status = "returned"
                 THEN [op |-> "insert_chunks", chunks |-> chunks,
                       status |-> "returned", ret |-> Len(chunks)]
                 ELSE [op |-> "insert_chunks", chunks |-> chunks,
                       status |-> "raised"]
    /\ UNCHANGED <<early_stopping, inflight, question, tool, config, conversation>>

\* SELECT COUNT(*) ..., with WHERE metadata->>'filename' = filename when a
\* filename is given
CountChunks(rows, filename) ==
    LET Counted(r) == filename = None \/ r.metadata.filename = filename[1]
    IN Len(SelectSeq(rows, Counted))

\* VectorStore.count_chunks
count_chunks(filename) ==
    /\ result = NoResult
    /\ result' = [op |-> "count_chunks", filename |-> filename,
                  ret |-> CountChunks(store, filename)]
    /\ UNCHANGED <<early_stopping, inflight, question, tool, store, nextId, config, conversation>>

\* Filenames in the order ORDER BY filename gives them
Filenames == <<"a.pdf", "b.pdf", "c.pdf">>

\* SELECT DISTINCT metadata->>'filename' ... ORDER BY filename
DistinctFilenames(rows) ==
    LET Listed(f) == \E i \in DOMAIN rows : rows[i].metadata.filename = f
    IN SelectSeq(Filenames, Listed)

\* VectorStore.get_all_documents
get_all_documents ==
    /\ result = NoResult
    /\ result' = [op |-> "get_all_documents", ret |-> DistinctFilenames(store)]
    /\ UNCHANGED <<early_stopping, inflight, question, tool, store, nextId, config, conversation>>

\* Mutant of DeleteWhere: the rows of the document are kept and the others
\* are deleted.
DeleteWhereNot(rows, filename) ==
    LET Kept(r) == r.metadata.filename = filename
    IN SelectSeq(rows, Kept)

\* The table after DELETE ... WHERE metadata->>'filename' = filename
DeleteWhere(rows, filename) ==
    LET Kept(r) == r.metadata.filename # filename
    IN SelectSeq(rows, Kept)

\* VectorStore.delete_document: the DELETE, the commit, and cur.rowcount
delete_document(filename) ==
    /\ result = NoResult
    /\ store' = DeleteWhere(store, filename)
    /\ result' = [op |-> "delete_document", filename |-> filename,
                  ret |-> Len(store) - Len(DeleteWhere(store, filename))]
    /\ UNCHANGED <<early_stopping, inflight, question, tool, nextId, config, conversation>>

\* Mutant of SimilarityResults: the rows are returned without their scores.
SimilarityResultsNoScore(q, k, filter_metadata) ==
    {[i \in DOMAIN results |-> [doc |-> results[i], score |-> Rat(0, 1)]] :
        results \in FetchNearest(q, k, filter_metadata)}

\* return [(dict(row), row["similarity"]) for row in results], for every
\* possible cur.fetchall()
SimilarityResults(q, k, filter_metadata) ==
    {[i \in DOMAIN results |->
         [doc |-> results[i], score |-> results[i].similarity]] :
        results \in FetchNearest(q, k, filter_metadata)}

similarity_search(q, k, filter_metadata) ==
    /\ result = NoResult
    /\ \E out \in SimilarityResults(q, k, filter_metadata) :
           result' = [op |-> "similarity_search", k |-> k,
                      filter_metadata |-> filter_metadata, out |-> out]
    /\ UNCHANGED <<early_stopping, inflight, question, tool, store, nextId, config, conversation>>

\* Values of lambda_mult: pure diversity, the default, pure relevance
Lambdas == {Rat(0, 1), Rat(1, 2), Rat(1, 1)}

\* Mutant of LengthSimilarity: the proxy grows with the length difference.
LengthSimilarityInverted(candidate, sel) ==
    LET len_diff == Abs(len(candidate.content) - len(sel.content))
    IN Rat(100 + len_diff, 100)

\* len_diff = abs(len(candidate["content"]) - len(sel["content"]))
\* similarity = 1.0 / (1.0 + len_diff / 100)
LengthSimilarity(candidate, sel) ==
    LET len_diff == Abs(len(candidate.content) - len(sel.content))
    IN Rat(100, 100 + len_diff)

RECURSIVE MaxSimToSelected(_, _, _)
\* The inner loop `for sel in selected`, from max_sim_to_selected = acc
MaxSimToSelected(candidate, selected, acc) ==
    IF selected = <<>> THEN acc
    ELSE MaxSimToSelected(candidate, Tail(selected),
                          RMax(acc, LengthSimilarity(candidate, Head(selected))))

\* Mutant of MmrScore: the two weights are exchanged.
MmrScoreSwapped(candidate, selected, lambda_mult) ==
    LET relevance == candidate.similarity
        max_sim_to_selected == MaxSimToSelected(candidate, selected, Rat(0, 1))
    IN RSub(RMul(RSub(Rat(1, 1), lambda_mult), relevance),
            RMul(lambda_mult, max_sim_to_selected))

\* mmr_score = lambda_mult * relevance - (1 - lambda_mult) * max_sim_to_selected
MmrScore(candidate, selected, lambda_mult) ==
    LET relevance == candidate.similarity
        max_sim_to_selected == MaxSimToSelected(candidate, selected, Rat(0, 1))
    IN RSub(RMul(lambda_mult, relevance),
            RMul(RSub(Rat(1, 1), lambda_mult), max_sim_to_selected))

RECURSIVE MaxByScoreLast(_, _)
\* Mutant of MaxByScore: among equal scores the last pair wins.
MaxByScoreLast(mmr_scores, best) ==
    IF mmr_scores = <<>> THEN best
    ELSE MaxByScoreLast(Tail(mmr_scores),
                        IF RLess(Head(mmr_scores)[2], best[2]) THEN best
                        ELSE Head(mmr_scores))

RECURSIVE MaxByScore(_, _)
\* Python max(mmr_scores, key=lambda x: x[1]) continued from `best`: a later
\* pair replaces the best one only when its score is strictly larger.
MaxByScore(mmr_scores, best) ==
    IF mmr_scores = <<>> THEN best
    ELSE MaxByScore(Tail(mmr_scores),
                    IF RLess(best[2], Head(mmr_scores)[2]) THEN Head(mmr_scores)
                    ELSE best)

RECURSIVE ListRemove(_, _)
\* Python list.remove(x): drops the first element equal to x
ListRemove(list, x) ==
    IF list = <<>> THEN <<>>
    ELSE IF Head(list) = x THEN Tail(list)
    ELSE <<Head(list)>> \o ListRemove(Tail(list), x)

\* Mutant of MmrRemaining: the chosen candidate stays in the pool.
MmrRemainingKept(remaining, best_candidate) == remaining

\* remaining.remove(best_candidate)
MmrRemaining(remaining, best_candidate) == ListRemove(remaining, best_candidate)

RECURSIVE MmrLoop(_, _, _, _, _)
\* while len(selected) < k and remaining: score every remaining candidate,
\* append the best to selected and remove it from remaining.  Yields the
\* final selected list and one record per iteration.
MmrLoop(selected, remaining, k, lambda_mult, steps) ==
    IF ~(Len(selected) < k /\ remaining # <<>>)
    THEN [selected |-> selected, steps |-> steps]
    ELSE LET mmr_scores == [i \in DOMAIN remaining |->
                              <<remaining[i],
                                MmrScore(remaining[i], selected, lambda_mult)>>]
             best == MaxByScore(Tail(mmr_scores), Head(mmr_scores))
             best_candidate == best[1]
         IN MmrLoop(Append(selected, best_candidate),
                    MmrRemaining(remaining, best_candidate),
                    k, lambda_mult,
                    Append(steps, [selected |-> selected,
                                   remaining |-> remaining,
                                   best_candidate |-> best_candidate,
                                   best_score |-> best[2]]))

\* Mutant of MmrFormat: each chunk is paired with the score of its greedy step.
MmrFormatStepScore(selected, steps, k) ==
    [i \in 1..Min(k, Len(selected)) |->
        [doc |-> [id |-> selected[i].id, content |-> selected[i].content,
                  metadata |-> selected[i].metadata],
         score |-> IF i = 1 THEN selected[i].similarity
                   ELSE steps[i - 1].best_score]]

\* Mutant of MmrFormat: the results are returned best similarity last.
MmrFormatReversed(selected, steps, k) ==
    LET n == Min(k, Len(selected)) IN
    [i \in 1..n |->
        [doc |-> [id |-> selected[n + 1 - i].id, content |-> selected[n + 1 - i].content,
                  metadata |-> selected[n + 1 - i].metadata],
         score |-> selected[n + 1 - i].similarity]]

\* for doc in selected[:k]: results.append((chunk, doc["similarity"]))
MmrFormat(selected, steps, k) ==
    [i \in 1..Min(k, Len(selected)) |->
        [doc |-> [id |-> selected[i].id, content |-> selected[i].content,
                  metadata |-> selected[i].metadata],
         score |-> selected[i].similarity]]

\* The body of mmr_search after the fetch: the candidates, the greedy steps
\* and the returned list, for every possible cur.fetchall()
MmrRuns(q, k, lambda_mult, fetch_k, filter_metadata) ==
    {IF candidates = <<>>
     THEN [candidates |-> candidates, steps |-> <<>>, out |-> <<>>]
     ELSE LET loop == MmrLoop(<<candidates[1]>>, Tail(candidates), k,
                              lambda_mult, <<>>)
          IN [candidates |-> candidates, steps |-> loop.steps,
              out |-> MmrFormat(loop.selected, loop.steps, k)] :
        candidates \in FetchNearest(q, fetch_k, filter_metadata)}

mmr_search(q, k, lambda_mult, fetch_k, filter_metadata) ==
    /\ result = NoResult
    /\ \E run \in MmrRuns(q, k, lambda_mult, fetch_k, filter_metadata) :
           result' = [op |-> "mmr_search", k |-> k, fetch_k |-> fetch_k,
                      lambda_mult |-> lambda_mult,
                      filter_metadata |-> filter_metadata,
                      candidates |-> run.candidates, steps |-> run.steps,
                      out |-> run.out]
    /\ UNCHANGED <<early_stopping, inflight, question, tool, store, nextId, config, conversation>>

-----------------------------------------------------------------------------
(* Reranker *)

RECURSIVE InsertDesc(_, _)
\* Put x into a list sorted by descending score, after every element whose
\* score is not smaller (list.sort is stable).
InsertDesc(sorted, x) ==
    IF sorted = <<>> THEN <<x>>
    ELSE IF RLess(Head(sorted).score, x.score) THEN <<x>> \o sorted
    ELSE <<Head(sorted)>> \o InsertDesc(Tail(sorted), x)

RECURSIVE SortDesc(_, _)
\* reranked.sort(key=lambda x: x[1], reverse=True), continued from `sorted`
SortDesc(list, sorted) ==
    IF list = <<>> THEN sorted
    ELSE SortDesc(Tail(list), InsertDesc(sorted, Head(list)))

\* Mutant of rerank: the sorted list is returned whole.
RerankNoCut(query, documents, top_k, predict) ==
    IF documents = <<>> THEN <<>>
    ELSE SortDesc([i \in DOMAIN documents |->
                      [doc |-> documents[i].doc,
                       score |-> predict[documents[i].doc.content]]], <<>>)

\* Mutant of rerank: the retrieval score is added to the model's score.
RerankBlended(query, documents, top_k, predict) ==
    IF documents = <<>> THEN <<>>
    ELSE LET reranked == [i \in DOMAIN documents |->
                            LET p == predict[documents[i].doc.content]
                                r == documents[i].score
                            IN [doc |-> documents[i].doc,
                                score |-> <<p[1] * r[2] + r[1] * p[2], p[2] * r[2]>>]]
             sorted == SortDesc(reranked, <<>>)
         IN SubSeq(sorted, 1, Min(top_k, Len(sorted)))

\* Reranker.rerank, predict being the model's score of each content for
\* the query
rerank(query, documents, top_k, predict) ==
    IF documents = <<>> THEN <<>>
    ELSE LET reranked == [i \in DOMAIN documents |->
                            [doc |-> documents[i].doc,
                             score |-> predict[documents[i].doc.content]]]
             sorted == SortDesc(reranked, <<>>)
         IN SubSeq(sorted, 1, Min(top_k, Len(sorted)))

\* Scores the retrieval gave to the candidates
RetrievalScores == {Rat(24, 25), Rat(1, 1)}

\* A candidate as retrieval hands it to the reranker: (doc, score)
Candidate(id, score) ==
    [doc |-> [id |-> id,
              content |-> IF id % 2 = 1 THEN "DL" ELSE "NLP",
              metadata |-> [filename |-> "a.pdf",
                            section |-> SectionOf(IF id % 2 = 1 THEN "DL" ELSE "NLP")],
              similarity |-> score],
     score |-> score]

\* Candidate lists handed to rerank: up to MaxDocs different chunks in any
\* order, two of them of equal content, with any retrieval scores.
CandidateLists ==
    UNION { { [i \in 1..n |-> Candidate(ids[i], scores[i])] :
                ids \in { f \in [1..n -> 1..MaxDocs] :
                            \A i, j \in 1..n : i # j => f[i] # f[j] },
                scores \in [1..n -> RetrievalScores] } : n \in 0..MaxDocs }

\* One call of Reranker.rerank
RerankCall(documents, top_k, predict) ==
    /\ result = NoResult
    /\ result' = [op |-> "rerank", documents |-> documents, top_k |-> top_k,
                  predict |-> predict,
                  out |-> rerank(<<"x">>, documents, top_k, predict)]
    /\ UNCHANGED <<early_stopping, inflight, question, tool, store, nextId, config, conversation>>

-----------------------------------------------------------------------------------------------------------------------------------------------------------------------------------------------------------------------------
(* Document claims *)

\* C13: an insert_chunks call that returns gives back the batch length, and
\* count_chunks() is then larger by exactly the batch length, also when the
\* same content is already stored and after earlier inserts and deletes.
C13_InsertAddsBatchLength ==
    [][(result'.op = "insert_chunks" /\ result'.status = "returned") =>
           /\ result'.ret = Len(result'.chunks)
           /\ CountChunks(store', None)
                  = CountChunks(store, None) + Len(result'.chunks)]_vars

\* C13 witness: after a delete, insert_chunks returned for a chunk whose
\* content, metadata and embedding an older row already holds.
C13_Witness ==
    /\ result.op = "insert_chunks"
    /\ result.status = "returned"
    /\ Len(result.chunks) = 1
    /\ nextId > Len(store)
    /\ \E i \in 1..(Len(store) - 1) :
           /\ store[i].content = result.chunks[1].content
           /\ store[i].metadata = result.chunks[1].metadata
           /\ store[i].embedding = result.chunks[1].embedding

\* C14: an insert_chunks call whose batch holds a chunk with an embedding of
\* another size than the column's raises and leaves the table as it was:
\* no chunk of the batch is stored and count_chunks is unchanged.
C14_FailedInsertStoresNothing ==
    [][(/\ result'.op = "insert_chunks"
        /\ \E i \in DOMAIN result'.chunks :
               Len(result'.chunks[i].embedding) # vector_size) =>
           /\ result'.status = "raised"
           /\ store' = store
           /\ CountChunks(store', None) = CountChunks(store, None)]_vars

\* C14 witness: insert_chunks raised on the second chunk of a batch whose
\* first chunk was valid, on a table that holds rows.
C14_Witness ==
    /\ result.op = "insert_chunks"
    /\ result.status = "raised"
    /\ Len(result.chunks) = 2
    /\ Len(result.chunks[1].embedding) = vector_size
    /\ store # <<>>

\* C15: delete_document(filename) returns the number count_chunks(filename)
\* had before, leaves no chunk of filename (count_chunks(filename) is 0 and
\* get_all_documents does not list it), and keeps every other row unchanged
\* and in place.
C15_DeleteExactlyDocument ==
    [][result'.op = "delete_document" =>
           LET f == result'.filename IN
           /\ result'.ret = CountChunks(store, Some(f))
           /\ CountChunks(store', Some(f)) = 0
           /\ \A i \in DOMAIN DistinctFilenames(store') :
                  DistinctFilenames(store')[i] # f
           /\ Len(store') = Len(store) - result'.ret
           /\ \A i \in DOMAIN store :
                  store[i].metadata.filename # f =>
                      \E j \in DOMAIN store' : store'[j] = store[i]
           /\ \A j \in DOMAIN store' :
                  /\ store'[j].metadata.filename # f
                  /\ \E i \in DOMAIN store : store[i] = store'[j]]_vars

\* C15 witness: delete_document removed two chunks and left another
\* document's chunk.
C15_Witness ==
    /\ result.op = "delete_document"
    /\ result.ret = 2
    /\ store # <<>>

-----
(* Reranker claims *)

IsRerank == result.op = "rerank"

\* Position of the chunk `id` in the candidates handed to rerank
InputPosition(id) ==
    CHOOSE i \in DOMAIN result.documents : result.documents[i].doc.id = id

\* rerank returned [] for [] and min(top_k, candidates) items otherwise.
RerankLength ==
    IF result.documents = <<>> THEN result.out = <<>>
    ELSE Len(result.out) = Min(result.top_k, Len(result.documents))

\* C11 as stated: rerank returns [] for [], otherwise exactly
\* min(top_k, candidates) items, each with a strictly smaller reranker score
\* than the one before it.
C11_Original ==
    IsRerank =>
        /\ RerankLength
        /\ \A i, j \in DOMAIN result.out :
               i < j => RLess(result.out[j].score, result.out[i].score)

\* C11: rerank returns [] for [], otherwise exactly min(top_k, candidates)
\* items in non-increasing order of reranker score, items of equal score in
\* the order of the input.
C11_DescendingStable ==
    IsRerank =>
        /\ RerankLength
        /\ \A i, j \in DOMAIN result.out :
               i < j =>
                   \/ RLess(result.out[j].score, result.out[i].score)
                   \/ /\ REq(result.out[j].score, result.out[i].score)
                      /\ InputPosition(result.out[i].doc.id)
                             < InputPosition(result.out[j].doc.id)

\* C11 witness: rerank cut three candidates down to two of equal reranker
\* score.
C11_Witness ==
    /\ IsRerank
    /\ Len(result.documents) = 3
    /\ result.top_k = 2
    /\ Len(result.out) = 2
    /\ REq(result.out[1].score, result.out[2].score)

\* The candidates of the last rerank call with other retrieval scores
Rescored(scores) ==
    [i \in DOMAIN result.documents |->
        [doc |-> result.documents[i].doc, score |-> scores[i]]]

\* C12: every item rerank returns is the chunk of one input candidate, no
\* chunk is returned twice, its score is the model's score of its content,
\* and the same candidates with any other retrieval scores give the same
\* output.
C12_ScoresReplaceInput ==
    IsRerank =>
        /\ \A i \in DOMAIN result.out :
               /\ \E j \in DOMAIN result.documents :
                      result.out[i].doc = result.documents[j].doc
               /\ result.out[i].score = result.predict[result.out[i].doc.content]
        /\ \A i, j \in DOMAIN result.out :
               i # j => result.out[i].doc.id # result.out[j].doc.id
        /\ \A scores \in [DOMAIN result.documents -> RetrievalScores] :
               rerank(<<"x">>, Rescored(scores), result.top_k, result.predict)
                   = result.out

\* C12 witness: rerank put first a candidate that retrieval had scored lower
\* than the one it now follows.
C12_Witness ==
    /\ IsRerank
    /\ Len(result.out) >= 2
    /\ RLess(result.out[2].score, result.out[1].score)
    /\ RLess(result.documents[InputPosition(result.out[1].doc.id)].score,
             result.documents[InputPosition(result.out[2].doc.id)].score)

-----
(* Conversation Store *)

\* Redis LRANGE key start stop: negative indices count from the end
LRange(list, start, stop) ==
    LET n == Len(list)
        from == IF start < 0 THEN (IF n + start < 0 THEN 0 ELSE n + start) ELSE start
        to == IF stop < 0 THEN n + stop ELSE (IF stop >= n THEN n - 1 ELSE stop)
    IN IF from > to THEN <<>> ELSE SubSeq(list, from + 1, to + 1)

\* ConversationManager.get_history: lrange(key, -limit, -1)
get_history(conversation_id, limit) ==
    LRange(conversation[conversation_id], -limit, -1)

\* ConversationManager.add_message: rpush of the message to the list
add_message(conversation_id, role, content) ==
    /\ result = NoResult
    /\ Len(conversation[conversation_id]) < MaxHistory
    /\ conversation' = [conversation EXCEPT ![conversation_id] =
                            @ \o <<[role |-> role, content |-> content]>>]
    /\ result' = [op |-> "add_message"]
    /\ UNCHANGED <<early_stopping, inflight, question, tool, store, nextId, config>>

\* One call of ConversationManager.get_history
GetHistoryCall(conversation_id, limit) ==
    /\ result = NoResult
    /\ result' = [op |-> "get_history", conversation_id |-> conversation_id,
                  limit |-> limit, ret |-> get_history(conversation_id, limit)]
    /\ UNCHANGED <<early_stopping, inflight, question, tool, store, nextId, config, conversation>>

\* ConversationManager.format_for_llm
format_for_llm(conversation_id, limit, include_system) ==
    (IF include_system
     THEN <<[role |-> "system", content |-> <<"assistant with documents">>]>>
     ELSE <<>>)
        \o get_history(conversation_id, limit)

-----------------------------------------------------------------------------
(* Retrieval orchestrator: RAGSystem.query *)

\* The call returned `ret`; `added` are the messages it appended.
Returned(ret, calls, prompt, added) ==
    [status |-> "returned", ret |-> ret, calls |-> calls, prompt |-> prompt,
     added |-> added]

\* The call raised at its last collaborator call.
Raised(calls, added) ==
    [status |-> "raised", calls |-> calls, added |-> added]

\* `if conversation_id and self.conversation_manager`
HasConversation(conversation_id) ==
    conversation_id # None /\ config.conversation_manager

\* The LLM's reply and usage report
Answer == <<"answer">>

\* Mutant of CompleteAndPersist: the answer is stored before the question.
CompleteAndPersistSwapped(question_, conversation_id, env, calls, prompt, ret) ==
    IF env.fail = "llm" THEN Raised(calls \o <<"llm">>, <<>>)
    ELSE IF ~HasConversation(conversation_id)
    THEN Returned(ret, calls \o <<"llm">>, prompt, <<>>)
    ELSE Returned(ret, calls \o <<"llm", "add_message", "add_message">>, prompt,
                  << [role |-> "assistant", content |-> Answer],
                     [role |-> "user", content |-> question_] >>)

\* Mutant of CompleteAndPersist: the question is stored before the LLM is
\* called.
CompleteAndPersistEarly(question_, conversation_id, env, calls, prompt, ret) ==
    IF ~HasConversation(conversation_id)
    THEN IF env.fail = "llm" THEN Raised(calls \o <<"llm">>, <<>>)
         ELSE Returned(ret, calls \o <<"llm">>, prompt, <<>>)
    ELSE IF env.fail = "llm"
    THEN Raised(calls \o <<"add_message", "llm">>,
                << [role |-> "user", content |-> question_] >>)
    ELSE Returned(ret, calls \o <<"add_message", "llm", "add_message">>, prompt,
                  << [role |-> "user", content |-> question_],
                     [role |-> "assistant", content |-> Answer] >>)

\* self.llm.chat.completions.create(...), then the two add_message calls
\* when a conversation is in use, then the return of the result dict.
\* A stored message is its role and content; its timestamp and metadata are
\* left out.  `prompt` keeps of the LLM request the system text, the history
\* messages, the number of context blocks and the temperature.
CompleteAndPersist(question_, conversation_id, env, calls, prompt, ret) ==
    IF env.fail = "llm" THEN Raised(calls \o <<"llm">>, <<>>)
    ELSE IF ~HasConversation(conversation_id)
    THEN Returned(ret, calls \o <<"llm">>, prompt, <<>>)
    ELSE IF env.fail = "add_user"
    THEN Raised(calls \o <<"llm", "add_message">>, <<>>)
    ELSE IF env.fail = "add_assistant"
    THEN Raised(calls \o <<"llm", "add_message", "add_message">>,
                << [role |-> "user", content |-> question_] >>)
    ELSE Returned(ret, calls \o <<"llm", "add_message", "add_message">>, prompt,
                  << [role |-> "user", content |-> question_],
                     [role |-> "assistant", content |-> Answer] >>)

\* Mutant of _answer_directly: no tokens are reported.
AnswerDirectlyNoTokens(question_, conversation_id, eco_mode, env) ==
    IF HasConversation(conversation_id) /\ env.fail = "history"
    THEN {Raised(<<"format_for_llm">>, <<>>)}
    ELSE LET messages == IF HasConversation(conversation_id)
                         THEN format_for_llm(conversation_id[1], 3, TRUE)
                         ELSE <<[role |-> "system", content |-> <<"assistant">>]>>
             system == IF eco_mode THEN messages[1].content \o <<"concise">>
                       ELSE messages[1].content
             prompt == [system |-> system, history |-> Tail(messages),
                        context |-> 0, temperature |-> "0.7"]
             calls == IF HasConversation(conversation_id)
                      THEN <<"format_for_llm">> ELSE <<>>
         IN {CompleteAndPersist(question_, conversation_id, env, calls, prompt,
                [answer |-> Answer, sources |-> <<>>, tool_used |-> "direct_llm",
                 num_tokens |-> 0])}

_answer_directly(question_, conversation_id, eco_mode, env) ==
    IF HasConversation(conversation_id) /\ env.fail = "history"
    THEN {Raised(<<"format_for_llm">>, <<>>)}
    ELSE LET messages == IF HasConversation(conversation_id)
                         THEN format_for_llm(conversation_id[1], 3, TRUE)
                         ELSE <<[role |-> "system", content |-> <<"assistant">>]>>
             system == IF eco_mode THEN messages[1].content \o <<"concise">>
                       ELSE messages[1].content
             prompt == [system |-> system, history |-> Tail(messages),
                        context |-> 0, temperature |-> "0.7"]
             calls == IF HasConversation(conversation_id)
                      THEN <<"format_for_llm">> ELSE <<>>
         IN {CompleteAndPersist(question_, conversation_id, env, calls, prompt,
                [answer |-> Answer, sources |-> <<>>, tool_used |-> "direct_llm",
                 num_tokens |-> env.total_tokens])}

\* doc["content"][:200] + "..."
Preview(content) ==
    [text |-> content, chars |-> Min(len(content), 200), suffix |-> "..."]

\* Mutant of _answer_with_rag's early return: it reports the web_search tool.
NoDocumentsAsWeb ==
    [answer |-> "I couldn't find relevant information in the documents.",
     sources |-> <<>>, tool_used |-> "web_search",
     retrieval_method |-> "similarity", reranked |-> FALSE, num_tokens |-> 0]

\* Mutant of NoDocuments: the retrieval fields are left out.
NoDocumentsBare ==
    [answer |-> "I couldn't find relevant information in the documents.",
     sources |-> <<>>, tool_used |-> "rag", num_tokens |-> 0]

\* Mutant of NoDocuments: a token count is reported.
NoDocumentsCounted ==
    [answer |-> "I couldn't find relevant information in the documents.",
     sources |-> <<>>, tool_used |-> "rag",
     retrieval_method |-> "similarity", reranked |-> FALSE, num_tokens |-> 42]

\* The dict returned when retrieval yields nothing
NoDocuments ==
    [answer |-> "I couldn't find relevant information in the documents.",
     sources |-> <<>>, tool_used |-> "rag",
     retrieval_method |-> "similarity", reranked |-> FALSE, num_tokens |-> 0]

\* Steps 3 to 8 of _answer_with_rag, `retrieved` being the retrieval's output
AnswerFromResults(question_, conversation_id, k, use_mmr, use_rerank, eco_mode, env, retrieved) ==
    LET reranking == use_rerank /\ config.reranker /\ retrieved # <<>>
        calls1 == <<"embed_text", IF use_mmr THEN "mmr_search" ELSE "similarity_search">>
        calls2 == IF reranking THEN calls1 \o <<"rerank">> ELSE calls1
        results == IF reranking THEN rerank(question_, retrieved, k, env.predict)
                   ELSE retrieved
    IN IF reranking /\ env.fail = "rerank" THEN Raised(calls2, <<>>)
       ELSE IF results = <<>> THEN Returned(NoDocuments, calls2, None, <<>>)
       ELSE IF HasConversation(conversation_id) /\ env.fail = "history"
       THEN Raised(calls2 \o <<"format_for_llm">>, <<>>)
       ELSE LET history == IF HasConversation(conversation_id)
                           THEN format_for_llm(conversation_id[1], 2, FALSE)
                           ELSE <<>>
                calls3 == IF HasConversation(conversation_id)
                          THEN calls2 \o <<"format_for_llm">> ELSE calls2
                prompt == [system |-> IF eco_mode THEN <<"context assistant", "concise">>
                                      ELSE <<"context assistant">>,
                           history |-> history, context |-> Len(results),
                           temperature |-> "0.3"]
                sources == [i \in DOMAIN results |->
                               [content |-> Preview(results[i].doc.content),
                                filename |-> results[i].doc.metadata.filename,
                                section |-> results[i].doc.metadata.section,
                                score |-> results[i].score]]
            IN CompleteAndPersist(question_, conversation_id, env, calls3, prompt,
                   [answer |-> Answer, sources |-> sources, tool_used |-> "rag",
                    retrieval_method |-> IF use_mmr THEN "mmr" ELSE "similarity",
                    reranked |-> use_rerank /\ config.reranker,
                    num_tokens |-> env.total_tokens])

\* The outcome with the number of candidates retrieval returned (len(results)
\* after step 2) noted in it
WithRetrieved(outcome, n) ==
    [field \in DOMAIN outcome \cup {"retrieved"} |->
        IF field = "retrieved" THEN n ELSE outcome[field]]

_answer_with_rag(question_, conversation_id, k, use_mmr, use_rerank, eco_mode, filter_document, env) ==
    IF env.fail = "embedding" THEN {Raised(<<"embed_text">>, <<>>)}
    ELSE IF env.fail = "retrieval"
    THEN {Raised(<<"embed_text",
                   IF use_mmr THEN "mmr_search" ELSE "similarity_search">>, <<>>)}
    ELSE LET filter_metadata == IF filter_document # None
                                THEN Some([filename |-> filter_document[1]])
                                ELSE None
             retrievals ==
                 IF use_mmr
                 THEN {run.out : run \in MmrRuns(query_embedding, k, Rat(1, 2),
                                                k * 4, filter_metadata)}
                 ELSE SimilarityResults(query_embedding,
                                        IF use_rerank THEN k * 2 ELSE k,
                                        filter_metadata)
         IN {WithRetrieved(AnswerFromResults(question_, conversation_id, k, use_mmr,
                                             use_rerank, eco_mode, env, retrieved),
                           Len(retrieved)) : retrieved \in retrievals}

\* WebSearchTool.search: at most max_results results, [] when the search fails
WebSearch(max_results, env) ==
    IF env.fail = "web" THEN <<>>
    ELSE [i \in 1..Min(max_results, env.web_results) |->
             [title |-> <<"title", i>>, snippet |-> <<"snippet", i>>,
              link |-> <<"link", i>>]]

\* Steps 2 to 5 of _answer_with_web_search, from the search results on
AnswerFromSearch(question_, conversation_id, eco_mode, env, search_results) ==
    IF search_results = <<>>
    THEN Returned([answer |-> "I couldn't find relevant information on the web.",
                    sources |-> <<>>, tool_used |-> "web_search", num_tokens |-> 0],
                   <<"search">>, None, <<>>)
    ELSE IF HasConversation(conversation_id) /\ env.fail = "history"
    THEN Raised(<<"search", "format_for_llm">>, <<>>)
    ELSE LET history == IF HasConversation(conversation_id)
                        THEN format_for_llm(conversation_id[1], 2, FALSE)
                        ELSE <<>>
             calls == IF HasConversation(conversation_id)
                      THEN <<"search", "format_for_llm">> ELSE <<"search">>
             prompt == [system |-> IF eco_mode THEN <<"web assistant", "concise">>
                                   ELSE <<"web assistant">>,
                        history |-> history, context |-> Len(search_results),
                        temperature |-> "0.3"]
             sources == [i \in DOMAIN search_results |->
                            [filename |-> "Web Search",
                             section |-> search_results[i].title,
                             content |-> [text |-> search_results[i].snippet,
                                          suffix |-> "..."],
                             score |-> RSub(Rat(1, 1), RMul(Rat(i - 1, 1), Rat(1, 10))),
                             link |-> search_results[i].link]]
         IN CompleteAndPersist(question_, conversation_id, env, calls, prompt,
                [answer |-> Answer, sources |-> sources, tool_used |-> "web_search",
                 num_tokens |-> env.total_tokens])

\* The outcome with what the search call was asked and what it gave noted in
\* it
WithSearch(outcome, max_results, search_results, failed) ==
    [field \in DOMAIN outcome \cup {"max_results", "found", "provider"} |->
        IF field = "max_results" THEN max_results
        ELSE IF field = "found" THEN Len(search_results)
        ELSE IF field = "provider" THEN (IF failed THEN "failed" ELSE "answered")
        ELSE outcome[field]]

\* Mutant of _answer_with_web_search: five results are asked for.
AnswerWithWebSearchFive(question_, conversation_id, eco_mode, env) ==
    IF ~config.web_search THEN {Raised(<<>>, <<>>)}
    ELSE {WithSearch(AnswerFromSearch(question_, conversation_id, eco_mode, env,
                                      WebSearch(5, env)),
                     5, WebSearch(5, env), env.fail = "web")}

\* RAGSystem._answer_with_web_search; self.web_search is None when the
\* system was built with enable_web_search=False
_answer_with_web_search(question_, conversation_id, eco_mode, env) ==
    IF ~config.web_search THEN {Raised(<<>>, <<>>)}
    ELSE {WithSearch(AnswerFromSearch(question_, conversation_id, eco_mode, env,
                                      WebSearch(3, env)),
                     3, WebSearch(3, env), env.fail = "web")}

\* Mutant of Dispatch: a question on a conversation with history is answered
\* directly.
DispatchByHistory(question_, conversation_id, k, use_mmr, use_rerank, eco_mode, filter_document, env) ==
    LET tool_ == IF HasConversation(conversation_id)
                    /\ conversation[conversation_id[1]] # <<>>
                 THEN "direct_llm" ELSE _route_to_tool(question_)
    IN IF tool_ = "direct_llm"
       THEN _answer_directly(question_, conversation_id, eco_mode, env)
       ELSE IF tool_ = "web_search"
       THEN _answer_with_web_search(question_, conversation_id, eco_mode, env)
       ELSE _answer_with_rag(question_, conversation_id, k, use_mmr, use_rerank,
                             eco_mode, filter_document, env)

\* tool = self._route_to_tool(question) and the branch on it
Dispatch(question_, conversation_id, k, use_mmr, use_rerank, eco_mode, filter_document, env) ==
    LET tool_ == _route_to_tool(question_)
    IN IF tool_ = "direct_llm"
       THEN _answer_directly(question_, conversation_id, eco_mode, env)
       ELSE IF tool_ = "web_search"
       THEN _answer_with_web_search(question_, conversation_id, eco_mode, env)
       ELSE _answer_with_rag(question_, conversation_id, k, use_mmr, use_rerank,
                             eco_mode, filter_document, env)

\* RAGSystem.query with tracing off; `usage` notes response.usage.total_tokens
\* of a completion made during the call.  env: what the collaborators do during
\* this call (the call that fails, if any; the web results; the reranker's
\* scores; the LLM's token count).
query(question_, conversation_id, k, use_mmr, use_rerank, eco_mode, filter_document, env) ==
    /\ result = NoResult
    /\ HasConversation(conversation_id) =>
           Len(conversation[conversation_id[1]]) < MaxMessages
    /\ \E outcome \in Dispatch(question_, conversation_id, k, use_mmr, use_rerank,
                              eco_mode, filter_document, env) :
           /\ result' = [op |-> "query", question |-> question_,
                         conversation_id |-> conversation_id, k |-> k,
                         use_mmr |-> use_mmr, use_rerank |-> use_rerank,
                         filter_document |-> filter_document,
                         usage |-> env.total_tokens,
                         outcome |-> outcome]
           /\ conversation' =
                  IF outcome.added = <<>> THEN conversation
                  ELSE [conversation EXCEPT ![conversation_id[1]] = @ \o outcome.added]
    /\ UNCHANGED <<early_stopping, inflight, question, tool, store, nextId, config>>

\* Questions put to query: a greeting, a current-events question, and one
\* with no keyword.
Questions ==
    { <<"H","E","L","L","O">>, <<"n","e","w","s">>, <<"x">> }

\* The chunks ingested before querying, as one batch
IngestBatch ==
    << Chunk("DL", "a.pdf", <<3, 4>>),
       Chunk("NLP", "a.pdf", <<4, 3>>),
       Chunk("DL", "b.pdf", <<4, 3>>) >>

FilterDocuments == {None, Some("a.pdf"), Some("c.pdf")}

\* The retrieval options of a query
RetrievalOptions ==
    [k : 1..MaxQueryK, use_mmr : BOOLEAN, use_rerank : BOOLEAN,
     filter_document : FilterDocuments]

\* The options tried with a question: every combination with the question
\* that has no keyword, and two opposite combinations with the greeting and
\* the current-events question.
OptionsFor(question_) ==
    IF question_ = <<"x">> THEN RetrievalOptions
    ELSE { [k |-> 1, use_mmr |-> FALSE, use_rerank |-> FALSE,
            filter_document |-> None],
           [k |-> MaxQueryK, use_mmr |-> TRUE, use_rerank |-> TRUE,
            filter_document |-> Some("a.pdf")] }

FailurePoints ==
    {"none", "embedding", "retrieval", "rerank", "llm", "history",
     "add_user", "add_assistant", "web"}

\* The reranker's scores: it prefers one content, the other, or neither
Predictions ==
    { [c \in Contents |-> IF c = best THEN Rat(2, 1) ELSE Rat(-1, 1)] : best \in Contents }
        \cup { [c \in Contents |-> Rat(2, 1)] }

\* The collaborators all succeed; the search provider has `web_results`
\* results for the question and the reranker scores by `predict`.
Succeeding(web_results, predict) ==
    [fail |-> "none", web_results |-> web_results, predict |-> predict,
     total_tokens |-> 42]

\* What the collaborators can do during one query: all succeed, all succeed
\* with a search that finds nothing and a completion of seven tokens, or one
\* of them fails.
Environments ==
    { Succeeding(4, p) : p \in Predictions }
        \cup { [Succeeding(0, [c \in Contents |-> Rat(2, 1)]) EXCEPT !.total_tokens = 7] }
        \cup { [Succeeding(4, [c \in Contents |-> Rat(2, 1)]) EXCEPT !.fail = f] :
                  f \in FailurePoints \ {"none"} }

-----------------------------------------------------------------------------
(* Vector store claims *)

IsSearch == result.op \in {"similarity_search", "mmr_search"}

StoredRows == {store[i] : i \in DOMAIN store}
RowById(id) == CHOOSE r \in StoredRows : r.id = id

\* Cosine similarity of a stored row to the query, as numerator over the
\* common squared norm.
CosNum(r) == Dot(r.embedding, query_embedding)
CosDen == Dot(query_embedding, query_embedding)

\* Rows a filter lets through: every key the filter gives is in the row's
\* metadata with the same value.
Eligible(filter_metadata) ==
    IF filter_metadata = None THEN StoredRows
    ELSE {r \in StoredRows :
            \A key \in DOMAIN filter_metadata[1] :
                r.metadata[key] = filter_metadata[1][key]}

OutIds == [i \in DOMAIN result.out |-> result.out[i].doc.id]

C6_FilterContainment ==
    IsSearch =>
        LET limit == IF result.op = "mmr_search"
                     THEN Min(result.k, result.fetch_k) ELSE result.k
            eligible == Eligible(result.filter_metadata)
        IN /\ \A i \in DOMAIN result.out : RowById(OutIds[i]) \in eligible
           /\ result.filter_metadata # None =>
                  \A i \in DOMAIN result.out :
                      result.out[i].doc.metadata.filename
                          = result.filter_metadata[1].filename
           /\ Len(result.out) = Min(limit, Cardinality(eligible))
           /\ result.filter_metadata = None => eligible = StoredRows

\* A search filtered on filename and section that returned a chunk while the
\* store also held a chunk of the same file in another section and a chunk
\* of another file, both left out.
C6_Witness ==
    /\ IsSearch
    /\ result.filter_metadata = Some([filename |-> "a.pdf", section |-> "deep"])
    /\ Len(result.out) >= 1
    /\ result.k > Len(result.out)
    /\ \E r \in StoredRows : r.metadata.filename = "a.pdf" /\ r.metadata.section # "deep"
    /\ \E r \in StoredRows : r.metadata.filename = "b.pdf"

\* C7: mmr_search never returns a chunk identifier twice and returns at most
\* min(k, fetch_k, number of stored chunks) items; with no candidates it
\* returns the empty list.
C7_MmrNoDuplicates ==
    result.op = "mmr_search" =>
        /\ \A i, j \in DOMAIN result.out : i # j => OutIds[i] # OutIds[j]
        /\ Len(result.out) <= Min(result.k, Min(result.fetch_k, Len(store)))
        /\ result.candidates = <<>> => result.out = <<>>

\* An MMR search that went through two greedy steps and returned three
\* chunks.
C7_Witness ==
    /\ result.op = "mmr_search"
    /\ Len(result.steps) = 2
    /\ Len(result.out) = 3

\* The outputs similarity_search(q, k, filter) can give on the current
\* store, each cut to its first fetch_k items, as sequences of identifiers.
SimilarityOrders(k, fetch_k, filter_metadata) ==
    {[i \in 1..Min(Len(s), fetch_k) |-> s[i].id] :
        s \in OrderByLimit(Eligible(filter_metadata), query_embedding, k)}

\* No two eligible rows are equally similar to the query.
DistinctScores(filter_metadata) ==
    \A r, t \in Eligible(filter_metadata) : r # t => CosNum(r) # CosNum(t)

\* C8 as stated: with lambda_mult = 1.0 the MMR result is the chunk sequence
\* of similarity_search(q, k) cut to the first fetch_k candidates, whatever
\* the store holds, equal similarity scores included.
C8_Original ==
    (result.op = "mmr_search" /\ REq(result.lambda_mult, Rat(1, 1))) =>
        \A ids \in SimilarityOrders(result.k, result.fetch_k, result.filter_metadata) :
            OutIds = ids

\* C8 (amended): with lambda_mult = 1.0 the MMR result is the first
\* min(k, fetch_k) candidates in fetch order, which is one of the orders
\* similarity_search(q, k) can return cut to fetch_k items; it is the only
\* one when no two eligible chunks have equal similarity scores.
C8_LambdaOneIsSimilarity ==
    (result.op = "mmr_search" /\ REq(result.lambda_mult, Rat(1, 1))) =>
        LET orders == SimilarityOrders(result.k, result.fetch_k, result.filter_metadata)
        IN /\ OutIds \in orders
           /\ OutIds = [i \in 1..Min(result.k, Len(result.candidates)) |->
                           result.candidates[i].id]
           /\ DistinctScores(result.filter_metadata) => orders = {OutIds}

\* An MMR search with lambda_mult = 1.0 over three candidates of three
\* different lengths-and-scores where pure diversity would choose otherwise:
\* the second result is nearer in length to the first than the third is.
C8_Witness ==
    /\ result.op = "mmr_search"
    /\ REq(result.lambda_mult, Rat(1, 1))
    /\ Len(result.out) = 3
    /\ RLess(result.out[2].score, result.out[1].score)
    /\ result.out[2].doc.content = result.out[1].doc.content
    /\ result.out[3].doc.content # result.out[1].doc.content

\* The largest of the length proxies 1/(1 + |len(c) - len(s)|/100) over the
\* selected items s: the proxy of a selected item nearest in length.
ClaimMaxSim(c, selected) ==
    LET diffs == {Abs(len(c.content) - len(selected[i].content)) : i \in DOMAIN selected}
        nearest == CHOOSE d \in diffs : \A e \in diffs : d <= e
    IN Rat(100, 100 + nearest)

\* lambda * relevance - (1 - lambda) * maxSim, relevance being the cosine
\* similarity of the candidate's stored row.
ClaimScore(c, selected, lambda_mult) ==
    LET maxSim == ClaimMaxSim(c, selected)
        relevance == Rat(CosNum(RowById(c.id)), CosDen)
    IN Rat(lambda_mult[1] * relevance[1] * maxSim[2]
             - (lambda_mult[2] - lambda_mult[1]) * maxSim[1] * relevance[2],
           lambda_mult[2] * relevance[2] * maxSim[2])

FetchPosition(c) == CHOOSE i \in DOMAIN result.candidates : result.candidates[i].id = c.id

\* C9: at every greedy step after the first, mmr_search takes, among the
\* not-yet-selected candidates, one with the highest score
\* lambda*relevance - (1-lambda)*maxSim, and among those of equal score the
\* one earliest in fetch order.
C9_GreedyStep ==
    result.op = "mmr_search" =>
        \A n \in DOMAIN result.steps :
            LET step == result.steps[n]
                taken == {result.candidates[1].id} \cup
                             {result.steps[m].best_candidate.id : m \in 1..(n - 1)}
                open == {c \in Range(result.candidates) : c.id \notin taken}
                best == step.best_candidate
                score(c) == ClaimScore(c, step.selected, result.lambda_mult)
            IN /\ best \in open
               /\ Range(step.remaining) = open
               /\ {step.selected[i].id : i \in DOMAIN step.selected} = taken
               /\ \A c \in open :
                      /\ ~RLess(score(best), score(c))
                      /\ (c # best /\ REq(score(best), score(c))) =>
                             FetchPosition(best) < FetchPosition(c)

\* A greedy step with two open candidates where the one taken is the less
\* relevant of the two.
C9_Witness ==
    /\ result.op = "mmr_search"
    /\ Len(result.steps) >= 1
    /\ Len(result.steps[1].remaining) = 2
    /\ \E c \in Range(result.steps[1].remaining) :
           RLess(result.steps[1].best_candidate.similarity, c.similarity)

\* A greedy step decided by fetch order between two candidates of equal score.
C9_TieWitness ==
    /\ result.op = "mmr_search"
    /\ \E n \in DOMAIN result.steps :
           \E c \in Range(result.steps[n].remaining) :
               /\ c # result.steps[n].best_candidate
               /\ REq(ClaimScore(c, result.steps[n].selected, result.lambda_mult),
                      result.steps[n].best_score)

\* C10: mmr_search returns the selected items in selection order, the first
\* being a candidate most similar to the query, each paired with its own
\* query-similarity score and not with the score of its greedy step.
C10_SelectionOrderAndScore ==
    result.op = "mmr_search" =>
        /\ \A i \in DOMAIN result.out :
               /\ i = 1 => /\ OutIds[1] = result.candidates[1].id
                           /\ \A r \in Eligible(result.filter_metadata) :
                                  CosNum(r) <= CosNum(RowById(OutIds[1]))
               /\ i > 1 => OutIds[i] = result.steps[i - 1].best_candidate.id
               /\ REq(result.out[i].score, Rat(CosNum(RowById(OutIds[i])), CosDen))
               /\ result.out[i].doc =
                      [id |-> RowById(OutIds[i]).id,
                       content |-> RowById(OutIds[i]).content,
                       metadata |-> RowById(OutIds[i]).metadata]
        /\ Len(result.out) = Min(result.k, Len(result.steps) + 1)
               \/ result.candidates = <<>>

\* An MMR search whose second result is more similar to the query than its
\* first greedy step's score says and less similar than its third result.
C10_Witness ==
    /\ result.op = "mmr_search"
    /\ Len(result.out) = 3
    /\ RLess(result.steps[1].best_score, result.out[2].score)
    /\ RLess(result.out[2].score, result.out[3].score)

-----------------------------------------------------------------------------

-----------------------------------------------------------------------------------------------------------------------------------------------------
(* Concurrent queries on one conversation *)

\* Queries running at the same time, each in a thread or process of its own
Processes == {1, 2}

Idle == [pc |-> "idle"]

\* The greeting each process asks; both are answered by _answer_directly
QuestionOf(p) == IF p = 1 THEN <<"h","i">> ELSE <<"h","e","y">>

\* The LLM's answer to a question, told apart by the question it answers
AnswerTo(question_) == <<"answer to">> \o question_

\* query is called with a conversation id: the router sends the greeting to
\* _answer_directly.
StartQuery(p) ==
    /\ inflight[p] = Idle
    /\ config.conversation_manager
    /\ _route_to_tool(QuestionOf(p)) = "direct_llm"
    /\ Len(conversation["c1"]) < MaxLog
    /\ inflight' = [inflight EXCEPT ![p] =
                        [pc |-> "format_for_llm", question |-> QuestionOf(p)]]
    /\ UNCHANGED <<early_stopping, question, tool, store, nextId, result, config, conversation>>

\* messages = self.conversation_manager.format_for_llm(conversation_id, limit=3)
ReadHistory(p) ==
    /\ inflight[p].pc = "format_for_llm"
    /\ inflight' = [inflight EXCEPT ![p] =
                        [pc |-> "llm", question |-> @.question,
                         messages |-> format_for_llm("c1", 3, TRUE)]]
    /\ UNCHANGED <<early_stopping, question, tool, store, nextId, result, config, conversation>>

\* response = self.llm.chat.completions.create(...)
CallLlm(p) ==
    /\ inflight[p].pc = "llm"
    /\ inflight' = [inflight EXCEPT ![p] =
                        [pc |-> "add_user", question |-> @.question,
                         answer |-> AnswerTo(@.question)]]
    /\ UNCHANGED <<early_stopping, question, tool, store, nextId, result, config, conversation>>

\* self.conversation_manager.add_message(conversation_id, "user", question)
AddUserMessage(p) ==
    /\ inflight[p].pc = "add_user"
    /\ conversation' = [conversation EXCEPT !["c1"] =
                            @ \o <<[role |-> "user", content |-> inflight[p].question]>>]
    /\ inflight' = [inflight EXCEPT ![p] =
                        [pc |-> "add_assistant", question |-> @.question,
                         answer |-> @.answer]]
    /\ UNCHANGED <<early_stopping, question, tool, store, nextId, result, config>>

\* self.conversation_manager.add_message(conversation_id, "assistant", answer)
\* and the return of the result
AddAssistantMessage(p) ==
    /\ inflight[p].pc = "add_assistant"
    /\ conversation' = [conversation EXCEPT !["c1"] =
                            @ \o <<[role |-> "assistant", content |-> inflight[p].answer]>>]
    /\ inflight' = [inflight EXCEPT ![p] = Idle]
    /\ UNCHANGED <<early_stopping, question, tool, store, nextId, result, config>>

-----------------------------------------------------------------------------
(* EarlyStopping (utils/helper_functions.py) *)

\* Validation losses and min_delta values, as whole numbers
Losses == {1, 2, 3}
MinDeltas == {0, 1}

\* EarlyStopping.__init__
EarlyStoppingInit(patience, min_delta) ==
    [patience |-> patience, min_delta |-> min_delta, counter |-> 0,
     best_loss |-> None, early_stop |-> FALSE]

\* Mutant of NotImproved: a loss equal to the threshold counts as no
\* improvement.
NotImprovedOrEqual(es, val_loss) ==
    val_loss >= es.best_loss[1] - es.min_delta

\* val_loss > self.best_loss - self.min_delta
NotImproved(es, val_loss) ==
    val_loss > es.best_loss[1] - es.min_delta

\* self.counter >= self.patience
Exhausted(counter, patience) == counter >= patience

\* Mutant of AfterCall: early_stop is recomputed from the counter on every
\* call instead of only ever being set.
AfterCallRecomputed(es, val_loss) ==
    IF es.best_loss = None
    THEN [es EXCEPT !.best_loss = Some(val_loss),
                    !.early_stop = Exhausted(es.counter, es.patience)]
    ELSE IF NotImproved(es, val_loss)
    THEN [es EXCEPT !.counter = es.counter + 1,
                    !.early_stop = Exhausted(es.counter + 1, es.patience)]
    ELSE [es EXCEPT !.best_loss = Some(val_loss), !.counter = 0,
                    !.early_stop = Exhausted(0, es.patience)]

\* The object after __call__(val_loss)
AfterCall(es, val_loss) ==
    IF es.best_loss = None
    THEN [es EXCEPT !.best_loss = Some(val_loss)]
    ELSE IF NotImproved(es, val_loss)
    THEN [es EXCEPT !.counter = es.counter + 1,
                    !.early_stop = IF Exhausted(es.counter + 1, es.patience)
                                   THEN TRUE ELSE es.early_stop]
    ELSE [es EXCEPT !.best_loss = Some(val_loss), !.counter = 0]

\* EarlyStopping.__call__; the caller keeps the losses it passed and the
\* values it got back
EarlyStoppingCall(val_loss) ==
    /\ result.op = "EarlyStopping"
    /\ Len(result.calls) < MaxCalls
    /\ early_stopping' = AfterCall(early_stopping, val_loss)
    /\ result' = [op |-> "EarlyStopping",
                  calls |-> Append(result.calls,
                                   [val_loss |-> val_loss,
                                    ret |-> AfterCall(early_stopping, val_loss).early_stop])]
    /\ UNCHANGED <<question, tool, store, nextId, config, conversation, inflight>>

-----
(* Orchestrator claims *)

\* The last operation was a query that returned a result dict.
QueryReturned ==
    /\ result.op = "query"
    /\ result.outcome.status = "returned"

\* One tool per question, fixed without looking at any other argument or at
\* any state.
ToolOfQuestion ==
    [q \in Questions |->
        IF q = <<"H","E","L","L","O">> THEN "direct_llm"
        ELSE IF q = <<"n","e","w","s">> THEN "web_search"
        ELSE "rag"]

\* C3: the tool_used that a query reports is a function of the question text
\* alone: every query that returns reports the one tool of its question,
\* whatever conversation_id, k, use_mmr, use_rerank, eco_mode and
\* filter_document it was given, whatever the vector store and the
\* conversation hold, and whatever queries ran before.
C3_RouteIsFunctionOfQuestion ==
    QueryReturned =>
        result.outcome.ret.tool_used = ToolOfQuestion[result.question]

\* C3 witness: on a filled store, a query on a conversation that earlier
\* queries wrote to returns with reranking and MMR requested and a document
\* filter set.
C3_Witness ==
    /\ QueryReturned
    /\ store # <<>>
    /\ result.conversation_id # None
    /\ Len(conversation["c1"]) > Len(result.outcome.added)
    /\ result.use_mmr /\ result.use_rerank
    /\ result.filter_document # None
    /\ result.outcome.ret.tool_used = "web_search"

IsQuery == result.op = "query"

\* The tool the router gives the last query's question
QueryRoute == _route_to_tool(result.question)

\* Rows of the table in the document the last query was restricted to
RowsInScope ==
    IF result.filter_document = None THEN StoredRows
    ELSE {r \in StoredRows : r.metadata.filename = result.filter_document[1]}

\* The collaborator calls the last query made, in order
Calls == result.outcome.calls

Called(name) == \E i \in DOMAIN Calls : Calls[i] = name

\* C16: a query routed to rag on a table with no row in scope either fails in
\* the embedding or retrieval call itself, or returns the fixed answer with
\* no sources and num_tokens 0 without calling the LLM, whatever use_mmr,
\* use_rerank and eco_mode are.
C16_NoDocumentsAnswer ==
    (IsQuery /\ QueryRoute = "rag" /\ RowsInScope = {}) =>
        IF result.outcome.status = "raised"
        THEN Calls[Len(Calls)] \in {"embed_text", "similarity_search", "mmr_search"}
        ELSE /\ result.outcome.ret.answer
                    = "I couldn't find relevant information in the documents."
             /\ result.outcome.ret.sources = <<>>
             /\ result.outcome.ret.num_tokens = 0
             /\ ~Called("llm")

\* C16 witness: with MMR and reranking requested, a query restricted to a
\* document of which the filled table holds no chunk returned the fixed
\* answer.
C16_Witness ==
    /\ QueryReturned
    /\ QueryRoute = "rag"
    /\ store # <<>>
    /\ RowsInScope = {}
    /\ result.use_mmr /\ result.use_rerank
    /\ result.outcome.ret.sources = <<>>

\* C17 as stated: query appends to the conversation only when it succeeds
\* with an LLM answer and a conversation id and a conversation store are
\* present, and then appends exactly the user question followed by the
\* assistant answer; in every other case, the no-results returns included,
\* the conversation is left as it was.
C17_Original ==
    [][result'.op = "query" =>
           LET o == result'.outcome
               old == conversation["c1"]
               new == conversation'["c1"]
               appended == SubSeq(new, Len(old) + 1, Len(new))
           IN /\ SubSeq(new, 1, Len(old)) = old
              /\ IF /\ o.status = "returned"
                    /\ \E i \in DOMAIN o.calls : o.calls[i] = "llm"
                    /\ result'.conversation_id # None
                    /\ config.conversation_manager
                 THEN appended = << [role |-> "user", content |-> result'.question],
                                    [role |-> "assistant", content |-> o.ret.answer] >>
                 ELSE appended = <<>>]_vars

\* C18 as stated: a query given a conversation id does not fail when a call
\* to the conversation store fails: no query raises from format_for_llm or
\* add_message.
C18_Original ==
    (IsQuery /\ result.outcome.status = "raised" /\ Calls # <<>>) =>
        Calls[Len(Calls)] \notin {"format_for_llm", "add_message"}

\* C19 as stated: whenever the reranker is applied, retrieval handed it the
\* 2k nearest rows in scope (all of them when there are fewer), with either
\* retrieval method, and a query that then returns has at most k sources.
C19_Original ==
    (IsQuery /\ Called("rerank")) =>
        /\ result.outcome.retrieved = Min(2 * result.k, Cardinality(RowsInScope))
        /\ result.outcome.status = "returned" =>
               Len(result.outcome.ret.sources) <= result.k

\* C20: on the web_search path of a system built with web search, the
\* provider is asked for at most 3 results and gives no more than asked; a
\* failing provider counts as no results and the query does not fail in the
\* search; with no results the query returns the fixed answer with no
\* sources and num_tokens 0 and makes no LLM call.
C20_WebSearchDegrades ==
    (IsQuery /\ QueryRoute = "web_search" /\ config.web_search) =>
        LET o == result.outcome IN
        /\ Calls # <<>> /\ Calls[1] = "search"
        /\ o.max_results <= 3
        /\ o.found <= o.max_results
        /\ o.provider = "failed" => o.found = 0
        /\ o.status = "raised" => Calls[Len(Calls)] # "search"
        /\ o.found = 0 =>
               /\ o.status = "returned"
               /\ o.ret.answer = "I couldn't find relevant information on the web."
               /\ o.ret.sources = <<>>
               /\ o.ret.num_tokens = 0
               /\ ~Called("llm")

\* C20 witness: the search provider failed and the query returned the fixed
\* answer.
C20_Witness ==
    /\ QueryReturned
    /\ QueryRoute = "web_search"
    /\ config.web_search
    /\ result.outcome.provider = "failed"
    /\ result.outcome.ret.sources = <<>>

\* Number of LLM completion calls the last query made
LlmCalls == Cardinality({i \in DOMAIN Calls : Calls[i] = "llm"})

\* C21: a query that returns reports num_tokens 0 when it made no LLM call,
\* and otherwise made exactly one completion call and reports the total
\* token count of that call's usage.
C21_TokenAccounting ==
    QueryReturned =>
        IF LlmCalls = 0 THEN result.outcome.ret.num_tokens = 0
        ELSE /\ LlmCalls = 1
             /\ result.outcome.ret.num_tokens = result.usage

\* C21 witness: a query answered directly returned the token count of its
\* completion, seven.
C21_Witness ==
    /\ QueryReturned
    /\ QueryRoute = "direct_llm"
    /\ LlmCalls = 1
    /\ result.usage = 7
    /\ result.outcome.ret.num_tokens = 7

\* Place of a collaborator call in the rag pipeline
Stage(call) ==
    IF call = "embed_text" THEN 1
    ELSE IF call \in {"similarity_search", "mmr_search"} THEN 2
    ELSE IF call = "rerank" THEN 3
    ELSE IF call = "format_for_llm" THEN 4
    ELSE IF call = "llm" THEN 5
    ELSE 6

\* C22: the collaborator calls of a rag query follow the pipeline order
\* embedding, retrieval, rerank, history read, LLM completion, persistence:
\* every call is of a later stage than the one before it, except that
\* persistence is two consecutive add_message calls; every call but the
\* first follows the call of the stage it depends on; a failed call is the
\* last one; and when the LLM call fails nothing is appended to the
\* conversation.
C22_PipelineOrder ==
    (IsQuery /\ QueryRoute = "rag") =>
        /\ Calls # <<>> /\ Calls[1] = "embed_text"
        /\ \A i, j \in DOMAIN Calls :
               i < j =>
                   \/ Stage(Calls[i]) < Stage(Calls[j])
                   \/ /\ Calls[i] = "add_message" /\ Calls[j] = "add_message"
                      /\ j = i + 1
        /\ Cardinality({i \in DOMAIN Calls : Calls[i] = "add_message"}) <= 2
        /\ Called("rerank") \/ Called("llm") =>
               Called("similarity_search") \/ Called("mmr_search")
        /\ Called("add_message") => Called("llm")
        /\ (result.outcome.status = "raised" /\ Calls[Len(Calls)] = "llm") =>
               result.outcome.added = <<>>
        /\ (result.outcome.status = "raised" /\ ~Called("add_message")) =>
               result.outcome.added = <<>>

\* C22 witness: a rag query with a conversation embedded, retrieved,
\* reranked, read the history, and failed in the LLM call.
C22_Witness ==
    /\ IsQuery
    /\ QueryRoute = "rag"
    /\ result.outcome.status = "raised"
    /\ Calls = <<"embed_text", "similarity_search", "rerank", "format_for_llm", "llm">>
    /\ result.outcome.added = <<>>

\* C23 as stated: every result query returns carries answer, sources,
\* tool_used, retrieval_method, reranked and num_tokens.
C23_Original ==
    QueryReturned =>
        {"answer", "sources", "tool_used", "retrieval_method", "reranked",
         "num_tokens"} \subseteq DOMAIN result.outcome.ret

\* C23: every result query returns carries answer, sources, tool_used and
\* num_tokens; a rag result, the no-results answer included, carries
\* retrieval_method and reranked as well, and a direct_llm or web_search
\* result carries neither.
C23_FieldsByRoute ==
    QueryReturned =>
        DOMAIN result.outcome.ret =
            IF result.outcome.ret.tool_used = "rag"
            THEN {"answer", "sources", "tool_used", "retrieval_method",
                  "reranked", "num_tokens"}
            ELSE {"answer", "sources", "tool_used", "num_tokens"}

\* C23 witness: a query returned the web_search no-results answer, which
\* has no retrieval_method.
C23_Witness ==
    /\ QueryReturned
    /\ result.outcome.ret.tool_used = "web_search"
    /\ result.outcome.ret.num_tokens = 0
    /\ "retrieval_method" \notin DOMAIN result.outcome.ret

\* C24 as stated: get_history(conversation_id, limit) returns the most
\* recent messages of the conversation, at most limit of them, oldest first,
\* for every limit >= 0.
C24_Original ==
    result.op = "get_history" =>
        LET all == conversation[result.conversation_id]
            n == Min(result.limit, Len(all))
        IN result.ret = SubSeq(all, Len(all) - n + 1, Len(all))

\* C25 as stated: a rag query that returns has at most k sources, whatever
\* use_mmr and use_rerank are and whether or not a reranker is configured.
C25_Original ==
    (QueryReturned /\ result.outcome.ret.tool_used = "rag") =>
        Len(result.outcome.ret.sources) <= result.k

\* C26 as stated: on a system built with enable_web_search=False, a query
\* whose question the router sends to web_search returns a result.
C26_Original ==
    (IsQuery /\ QueryRoute = "web_search" /\ ~config.web_search) =>
        result.outcome.status = "returned"

\* C28 as stated: in every rag result, the no-results answer included,
\* retrieval_method is "mmr" exactly when use_mmr was requested and
\* "similarity" otherwise, and reranked is true exactly when the reranker
\* was applied to the candidates.
C28_Original ==
    (QueryReturned /\ result.outcome.ret.tool_used = "rag") =>
        /\ result.outcome.ret.retrieval_method
               = IF result.use_mmr THEN "mmr" ELSE "similarity"
        /\ result.outcome.ret.reranked = Called("rerank")

\* C27 as stated: while queries on one conversation run concurrently, every
\* user question stored in it is immediately followed by the assistant's
\* answer to that question, unless it is the last message and its answer is
\* still to be stored.
C27_Original ==
    \A i \in DOMAIN conversation["c1"] :
        (conversation["c1"][i].role = "user" /\ i < Len(conversation["c1"])) =>
            conversation["c1"][i + 1]
                = [role |-> "assistant",
                   content |-> AnswerTo(conversation["c1"][i].content)]

-----------------------------------------------------------------------------
(* EarlyStopping claims *)

\* The calls made on the EarlyStopping object so far
EsCalls == IF result.op = "EarlyStopping" THEN result.calls ELSE <<>>

\* The losses replayed by the definition of an improvement: the first loss
\* sets the best loss; a later loss improves when it is not greater than the
\* best loss so far minus min_delta.
RECURSIVE Improves(_)
RECURSIVE BestAfter(_)
RECURSIVE StreakAfter(_)
Improves(n) ==
    \/ n = 1
    \/ EsCalls[n].val_loss <= BestAfter(n - 1) - early_stopping.min_delta

\* The best loss after the first n calls
BestAfter(n) ==
    IF Improves(n) THEN EsCalls[n].val_loss ELSE BestAfter(n - 1)

\* The number of consecutive non-improving losses after the first n calls
StreakAfter(n) ==
    IF Improves(n) THEN 0 ELSE StreakAfter(n - 1) + 1

\* Call n is the first to return True
FirstTrue(n) ==
    /\ EsCalls[n].ret
    /\ \A m \in 1..(n - 1) : ~EsCalls[m].ret

\* The object's counter and best loss are the replayed ones
TracksReplay ==
    Len(EsCalls) > 0 =>
        /\ early_stopping.counter = StreakAfter(Len(EsCalls))
        /\ early_stopping.best_loss = Some(BestAfter(Len(EsCalls)))

\* C29 as stated: EarlyStopping first returns True at exactly the call where
\* the number of consecutive non-improving losses since the last improvement
\* reaches patience; every improvement resets the counter to 0 and sets
\* best_loss to that loss, and the first call never counts as non-improving.
C29_Original ==
    /\ TracksReplay
    /\ \A n \in DOMAIN EsCalls :
           FirstTrue(n) <=>
               /\ StreakAfter(n) >= early_stopping.patience
               /\ \A m \in 1..(n - 1) : StreakAfter(m) < early_stopping.patience

\* Call n is a non-improving call that leaves the streak at patience or more
StreakExhausted(n) ==
    /\ ~Improves(n)
    /\ StreakAfter(n) >= early_stopping.patience

\* C29: EarlyStopping first returns True at exactly the first non-improving
\* call that brings the number of consecutive non-improving losses since the
\* last improvement to patience or more (with patience 0 that is the first
\* non-improving call, never the first call); every improvement resets the
\* counter to 0 and sets best_loss to that loss, and the first call never
\* counts as non-improving.
C29_FirstTrueAtExhaustedStreak ==
    /\ TracksReplay
    /\ \A n \in DOMAIN EsCalls :
           FirstTrue(n) <=>
               /\ StreakExhausted(n)
               /\ \A m \in 1..(n - 1) : ~StreakExhausted(m)

\* C29 witness: with patience 2, True is first returned after an improvement
\* had reset a counter of 1.
C29_Witness ==
    /\ early_stopping # None
    /\ early_stopping.patience = 2
    /\ \E n \in DOMAIN EsCalls :
           /\ FirstTrue(n)
           /\ \E m \in 3..(n - 1) : Improves(m) /\ StreakAfter(m - 1) = 1

\* Once a call has returned True every later call returns True
StopIsSticky ==
    \A m, n \in DOMAIN EsCalls : (m < n /\ EsCalls[m].ret) => EsCalls[n].ret

\* C30 as stated: once EarlyStopping has returned True it returns True on
\* every later call, and early_stop is true only if the counter is at least
\* patience.
C30_Original ==
    /\ StopIsSticky
    /\ (early_stopping # None /\ early_stopping.early_stop) =>
           early_stopping.counter >= early_stopping.patience

\* C30: once EarlyStopping has returned True it returns True on every later
\* call, and early_stop is true only if some earlier non-improving call left
\* the counter at patience or more; a later improvement resets the counter to
\* 0 and leaves early_stop true.
C30_StickyAfterExhaustedStreak ==
    /\ StopIsSticky
    /\ (early_stopping # None /\ early_stopping.early_stop) =>
           \E n \in DOMAIN EsCalls : StreakExhausted(n)

\* C30 witness: EarlyStopping returned True, then a better loss reset the
\* counter to 0, and the call still returned True.
C30_Witness ==
    /\ early_stopping # None
    /\ early_stopping.patience > 0
    /\ early_stopping.early_stop
    /\ early_stopping.counter = 0
    /\ Len(EsCalls) > 1
    /\ EsCalls[Len(EsCalls) - 1].ret
    /\ EsCalls[Len(EsCalls)].ret

-----------------------------------------------------------------------------
(* Initial states and specifications *)

\* Conversation identifiers in use
ConversationIds == {"c1"}

\* RAGSystem(...) as the command line builds it: conversation manager and
\* web search present, no reranker.
DefaultConfig ==
    [conversation_manager |-> TRUE, reranker |-> FALSE, web_search |-> TRUE]

InitBase ==
    /\ question = <<>>
    /\ tool = "none"
    /\ store = <<>>
    /\ nextId = 0
    /\ result = NoResult
    /\ conversation = [cid \in ConversationIds |-> <<>>]
    /\ inflight = [p \in Processes |-> Idle]

Init ==
    /\ InitBase
    /\ config = DefaultConfig
    /\ early_stopping = None

NextRouter ==
    \/ \E f \in Fragments : TypeFragment(f)
    \/ RouteToTool

SpecRouter == Init /\ [][NextRouter]_vars

Batches == {<<c>> : c \in Chunks} \cup {<<c, d>> : c \in Chunks, d \in Chunks}

NextStore ==
    \/ \E chunks \in Batches : insert_chunks(chunks)
    \/ \E k \in 0..MaxK, f \in Filters : similarity_search(query_embedding, k, f)
    \/ \E k \in 0..MaxK, fetch_k \in 0..MaxK, lambda_mult \in Lambdas, f \in Filters :
           mmr_search(query_embedding, k, lambda_mult, fetch_k, f)
    \/ Return

SpecStore == Init /\ [][NextStore]_vars

\* Chunks of the right embedding size and one of another size
DocumentChunks ==
    { Chunk("DL", "a.pdf", <<4, 3>>), Chunk("NLP", "b.pdf", <<3, 4>>),
      Chunk("NLP", "a.pdf", <<1>>) }

DocumentBatches ==
    {<<>>} \cup {<<c>> : c \in DocumentChunks}
           \cup {<<c, d>> : c \in DocumentChunks, d \in DocumentChunks}

NextDocuments ==
    \/ \E chunks \in DocumentBatches : insert_chunks(chunks)
    \/ \E f \in {None} \cup {Some(Filenames[i]) : i \in DOMAIN Filenames} :
           count_chunks(f)
    \/ get_all_documents
    \/ \E i \in DOMAIN Filenames : delete_document(Filenames[i])
    \/ Return

SpecDocuments == Init /\ [][NextDocuments]_vars

NextConversation ==
    \/ \E cid \in ConversationIds, role \in {"user", "assistant"},
          content \in {<<"x">>, <<"answer">>} : add_message(cid, role, content)
    \/ \E cid \in ConversationIds, limit \in 0..(MaxHistory + 1) :
           GetHistoryCall(cid, limit)
    \/ Return

SpecConversation == Init /\ [][NextConversation]_vars

NextConcurrent ==
    \E p \in Processes :
        \/ StartQuery(p)
        \/ ReadHistory(p)
        \/ CallLlm(p)
        \/ AddUserMessage(p)
        \/ AddAssistantMessage(p)

SpecConcurrent == Init /\ [][NextConcurrent]_vars

NextRerank ==
    \/ \E documents \in CandidateLists, top_k \in 0..MaxK, predict \in Predictions :
           RerankCall(documents, top_k, predict)
    \/ Return

SpecRerank == Init /\ [][NextRerank]_vars

\* The components RAGSystem is constructed with: all of them, or all but one
Configs ==
    LET all == [conversation_manager |-> TRUE, reranker |-> TRUE, web_search |-> TRUE]
    IN {all} \cup { [all EXCEPT ![c] = FALSE] :
                       c \in {"conversation_manager", "reranker", "web_search"} }

InitQuery ==
    /\ InitBase
    /\ config \in Configs
    /\ early_stopping = None

\* EarlyStopping(patience, min_delta) has just been constructed
InitEarlyStopping ==
    /\ question = <<>>
    /\ tool = "none"
    /\ store = <<>>
    /\ nextId = 0
    /\ conversation = [cid \in ConversationIds |-> <<>>]
    /\ inflight = [p \in Processes |-> Idle]
    /\ config = DefaultConfig
    /\ result = [op |-> "EarlyStopping", calls |-> <<>>]
    /\ \E patience \in 0..MaxPatience, min_delta \in MinDeltas :
           early_stopping = EarlyStoppingInit(patience, min_delta)

NextEarlyStopping == \E val_loss \in Losses : EarlyStoppingCall(val_loss)

SpecEarlyStopping == InitEarlyStopping /\ [][NextEarlyStopping]_vars

NextQuery ==
    \/ insert_chunks(IngestBatch)
    \/ \E q \in Questions, cid \in {None} \cup {Some(c) : c \in ConversationIds},
          eco_mode \in BOOLEAN, env \in Environments :
           \E o \in OptionsFor(q) :
               query(q, cid, o.k, o.use_mmr, o.use_rerank, eco_mode,
                     o.filter_document, env)
    \/ Return

SpecQuery == InitQuery /\ [][NextQuery]_vars

====
